---- MODULE Spec2Model ----
(***************************************************************************)
(* Admission layer of the Tiller gRPC server (pkg/tiller/server.go): the   *)
(* unary and the stream interceptor, the version check, the optional       *)
(* authenticated-user check, and splitMethod.                              *)
(*                                                                         *)
(* A Go string is modelled as a sequence of atoms.  An atom is either a    *)
(* one-character delimiter ("/" or "|") or a non-empty chunk of text that  *)
(* holds no delimiter.  The chunks used are prefix-free, so two different  *)
(* sequences never spell the same string; the empty string is <<>>.        *)
(***************************************************************************)
EXTENDS Integers, Sequences, FiniteSets, TLC

VARIABLES
    factory,    \* the caller's ServerOptsFactory value: [AuthProxyEnabled]
    opts,       \* the copy of the factory the interceptors closed over
    call,       \* call slot -> the state of the call in that slot
    splitIn,    \* input handed to splitMethod (specification SpecSplit)
    splitOut,   \* what splitMethod returned for splitIn, or NotRun
    lint,       \* the state of one run of the lint command (SpecLint)
    identity    \* one run of authenticatedUserFromContext (SpecIdentity)

vars == <<factory, opts, call, splitIn, splitOut, lint, identity>>

----------------------------------------------------------------------------
(* Bounds of the model *)

NumCalls == 1       \* call slots served concurrently
MaxMsgs == 1        \* messages exchanged on one open stream
MaxLen == 4         \* atoms in a string handed to splitMethod in SpecSplit
MaxPaths == 2       \* paths handed to one run of the lint command
NumConcurrent == 2  \* calls in flight together in SpecConcurrent

----------------------------------------------------------------------------
(* Strings *)

Slash == "/"
Pipe == "|"
EmptyStr == <<>>

Str(a) == <<a>>

\* strings.Split(s, sep) for a one-character separator
RECURSIVE Split(_, _)
Split(s, sep) ==
    IF \E i \in 1..Len(s) : s[i] = sep
    THEN LET i == CHOOSE k \in 1..Len(s) :
                      s[k] = sep /\ \A j \in 1..(k - 1) : s[j] # sep
         IN  <<SubSeq(s, 1, i - 1)>> \o Split(SubSeq(s, i + 1, Len(s)), sep)
    ELSE <<s>>

Unknown == Str("unknown")
GetVersionName == Str("GetVersion")

\* strings.Join(elems, sep)
RECURSIVE Join(_, _)
Join(elems, sep) ==
    IF Len(elems) = 0 THEN EmptyStr
    ELSE IF Len(elems) = 1 THEN elems[1]
    ELSE elems[1] \o <<sep>> \o Join(Tail(elems), sep)

\* splitMethod: the service and the method of a gRPC full method name
splitMethod(fullMethod) ==
    LET frags == Split(fullMethod, Slash)
    IN  IF Len(frags) = 3 THEN <<frags[2], frags[3]>>
        ELSE <<Unknown, Unknown>>

----------------------------------------------------------------------------
(* Package version (k8s.io/helm/pkg/version): the server's version and the *)
(* compatibility predicate the version check consults                      *)

GetVersion == Str("2.3.0")

Major(v) ==
    IF v \in {Str("2.1.0"), Str("2.3.0")} THEN 2
    ELSE IF v = Str("1.0.0") THEN 1
    ELSE 0      \* empty or malformed: no major version

IsCompatible(client, server) ==
    Major(client) # 0 /\ Major(client) = Major(server)

----------------------------------------------------------------------------
(* Errors and log records *)

Nil == [msg |-> "nil"]
VersionMismatch(client, server) ==
    [msg |-> "incompatible versions", client |-> client, server |-> server]
Unauthorized == [msg |-> "unauthorized access to tiller"]
HandlerError == [msg |-> "handler error"]
Canceled == [msg |-> "context canceled"]

LogError(err) == [rec |-> "error", err |-> err]
LogMetadata(md) == [rec |-> "Request Metadata", md |-> md]
LogAuthenticated(u, g) ==
    [rec |-> "Authenticated as", user |-> u, groups |-> Join(g, ",")]

----------------------------------------------------------------------------
(* The call context.  ctx.ok is what metadata.FromIncomingContext reports; *)
(* ctx.md maps each header present to its sequence of values.              *)

VersionKey == "x-helm-api-client"
UserKey == "x-forwarded-user"
GroupsKey == "x-forwarded-groups"

versionFromContext(ctx) ==
    IF ctx.ok /\ VersionKey \in DOMAIN ctx.md /\ Len(ctx.md[VersionKey]) > 0
    THEN ctx.md[VersionKey][1]
    ELSE EmptyStr

checkClientVersion(ctx) ==
    LET clientVersion == versionFromContext(ctx)
    IN  IF ~IsCompatible(clientVersion, GetVersion)
        THEN VersionMismatch(clientVersion, GetVersion)
        ELSE Nil

\* Faulty variant: reads the last value of each header, not the first.
authenticatedUserFromContext_LastValue(ctx) ==
    [user   |-> IF ctx.ok /\ UserKey \in DOMAIN ctx.md /\ Len(ctx.md[UserKey]) > 0
                THEN ctx.md[UserKey][Len(ctx.md[UserKey])] ELSE EmptyStr,
     groups |-> IF ctx.ok /\ GroupsKey \in DOMAIN ctx.md /\ Len(ctx.md[GroupsKey]) > 0
                THEN Split(ctx.md[GroupsKey][Len(ctx.md[GroupsKey])], Pipe)
                ELSE <<>>,
     log    |-> IF ctx.ok THEN <<LogMetadata(ctx.md)>> ELSE <<>>]

\* Returns the user, the groups and the log records it printed.
authenticatedUserFromContext(ctx) ==
    [user   |-> IF ctx.ok /\ UserKey \in DOMAIN ctx.md /\ Len(ctx.md[UserKey]) > 0
                THEN ctx.md[UserKey][1] ELSE EmptyStr,
     groups |-> IF ctx.ok /\ GroupsKey \in DOMAIN ctx.md /\ Len(ctx.md[GroupsKey]) > 0
                THEN Split(ctx.md[GroupsKey][1], Pipe) ELSE <<>>,
     log    |-> IF ctx.ok THEN <<LogMetadata(ctx.md)>> ELSE <<>>]

\* Faulty variant: takes any non-empty value of the header, not only the first.
checkAuthenticatedUser_AnyValue(ctx) ==
    LET ug == authenticatedUserFromContext(ctx)
        any == ctx.ok /\ UserKey \in DOMAIN ctx.md
               /\ \E i \in DOMAIN ctx.md[UserKey] : ctx.md[UserKey][i] # EmptyStr
    IN  [err |-> IF any THEN Nil ELSE Unauthorized, log |-> ug.log,
         events |-> <<"checkAuthenticatedUser", "authenticatedUserFromContext">>]

\* Returns the error, the log records printed and the functions entered.
checkAuthenticatedUser(ctx) ==
    LET ug == authenticatedUserFromContext(ctx)
    IN  IF ug.user = EmptyStr
        THEN [err |-> Unauthorized, log |-> ug.log,
              events |-> <<"checkAuthenticatedUser", "authenticatedUserFromContext">>]
        ELSE [err |-> Nil,
              log |-> ug.log \o <<LogAuthenticated(ug.user, ug.groups)>>,
              events |-> <<"checkAuthenticatedUser", "authenticatedUserFromContext">>]

\* Faulty variant: runs the check whatever the flag says.
optionallyCheckAuthenticatedUser_Always(f, ctx) ==
    LET r == checkAuthenticatedUser(ctx)
    IN  [r EXCEPT !.events = <<"optionallyCheckAuthenticatedUser">> \o @]

optionallyCheckAuthenticatedUser(f, ctx) ==
    IF f.AuthProxyEnabled
    THEN LET r == checkAuthenticatedUser(ctx)
         IN  [r EXCEPT !.events = <<"optionallyCheckAuthenticatedUser">> \o @]
    ELSE [err |-> Nil, log |-> <<>>,
          events |-> <<"optionallyCheckAuthenticatedUser">>]

----------------------------------------------------------------------------
(* Inputs: the full method names and the call contexts a client may send   *)

FullMethods ==
    { <<Slash, "Svc", Slash, "Install">>,               \* /Svc/Install
      <<Slash, "Svc", Slash, "GetVersion">>,            \* /Svc/GetVersion
      <<Slash, "Other", Slash, "GetVersion">>,          \* /Other/GetVersion
      <<Slash, Slash, "GetVersion">>,                   \* //GetVersion
      <<"GetVersion">> }                                \* GetVersion

NoMetadata == [ok |-> FALSE, md |-> <<>>]
WithMetadata(md) == [ok |-> TRUE, md |-> md]

Groups == <<"admins", Pipe, "devs">>                    \* admins|devs

Contexts ==
    { NoMetadata,
      WithMetadata(VersionKey :> <<Str("2.1.0")>> @@ UserKey :> <<Str("alice")>>
                   @@ GroupsKey :> <<Groups>>),
      WithMetadata(VersionKey :> <<Str("1.0.0")>> @@ UserKey :> <<Str("alice")>>),
      WithMetadata(VersionKey :> <<Str("2.1.0")>>),
      WithMetadata(VersionKey :> <<Str("1.0.0")>> @@ UserKey :> <<>>),
      WithMetadata(VersionKey :> <<>>
                   @@ UserKey :> <<EmptyStr, Str("alice")>>) }

Kinds == {"unary", "stream"}

\* What the business handler may hand back: a response or an error.
HandlerResults ==
    { [resp |-> "response", err |-> Nil], [resp |-> "nil", err |-> HandlerError] }

----------------------------------------------------------------------------
(* State *)

Calls == 1..NumCalls

NotRun == <<"not run">>

IdleCall ==
    [pc         |-> "idle",
     kind       |-> "none",
     fullMethod |-> EmptyStr,
     ctx        |-> NoMetadata,
     canceled   |-> FALSE,          \* the call's context was canceled
     trace      |-> <<>>,           \* gates and handler entered, in order
     log        |-> <<>>,           \* log records printed for the call
     msgs       |-> 0,              \* messages exchanged on the stream
     handlerRet |-> [resp |-> "nil", err |-> Nil],
     ret        |-> [resp |-> "nil", err |-> Nil]]

\* the lint command before it is run
IdleLint ==
    [pc |-> "idle", strict |-> FALSE, valsOK |-> TRUE, paths |-> <<>>,
     next |-> 1, lowestTolerance |-> 0, total |-> 0, failures |-> 0,
     ret |-> "none"]

\* NewServer: DefaultServerOpts has a value receiver, so the interceptors
\* close over a copy of the factory taken when the options are built.
\* No run of authenticatedUserFromContext on its own is under way.
IdleIdentity ==
    [pc |-> "idle", ctx |-> NoMetadata, user |-> EmptyStr, groups |-> <<>>,
     log |-> <<>>]

NewServer(f) == f

Init ==
    /\ factory \in [AuthProxyEnabled : BOOLEAN]
    /\ opts = NewServer(factory)
    /\ call = [c \in Calls |-> IdleCall]
    /\ splitIn = EmptyStr
    /\ splitOut = NotRun
    /\ lint = IdleLint
    /\ identity = IdleIdentity

----------------------------------------------------------------------------
(* The interceptors, one step per statement.  Each step maps the call's    *)
(* record to its next record.                                              *)

Return(cl, resp, err) ==
    [cl EXCEPT !.pc = "done", !.ret = [resp |-> resp, err |-> err]]

\* Faulty variant: the whitelist test is inverted, so only GetVersion is rejected.
UnaryVersionGate_InvertedWhitelist(cl) ==
    LET err == checkClientVersion(cl.ctx)
        entered == [cl EXCEPT !.trace = @ \o <<"checkClientVersion">>]
    IN  IF err # Nil /\ splitMethod(cl.fullMethod)[2] = GetVersionName
        THEN Return([entered EXCEPT !.log = @ \o <<LogError(err)>>], "nil", err)
        ELSE [entered EXCEPT !.pc = "auth"]

\* Faulty variant: a call the version check lets through goes straight to the handler.
UnaryVersionGate_SkipsAuth(cl) ==
    LET err == checkClientVersion(cl.ctx)
        entered == [cl EXCEPT !.trace = @ \o <<"checkClientVersion">>]
    IN  IF err # Nil /\ splitMethod(cl.fullMethod)[2] # GetVersionName
        THEN Return([entered EXCEPT !.log = @ \o <<LogError(err)>>], "nil", err)
        ELSE [entered EXCEPT !.pc = "handler"]

\* newUnaryInterceptor: the version check with the GetVersion whitelist
UnaryVersionGate(cl) ==
    LET err == checkClientVersion(cl.ctx)
        entered == [cl EXCEPT !.trace = @ \o <<"checkClientVersion">>]
    IN  IF err # Nil /\ splitMethod(cl.fullMethod)[2] # GetVersionName
        THEN Return([entered EXCEPT !.log = @ \o <<LogError(err)>>], "nil", err)
        ELSE [entered EXCEPT !.pc = "auth"]

\* Faulty variant: the stream handler is started before the authenticated-user check.
StreamVersionGate_HandlerFirst(cl) ==
    LET err == checkClientVersion(cl.ctx)
        entered == [cl EXCEPT !.trace = @ \o <<"checkClientVersion">>]
    IN  IF err # Nil
        THEN Return([entered EXCEPT !.log = @ \o <<LogError(err)>>], "nil", err)
        ELSE [entered EXCEPT !.trace = @ \o <<"handler">>, !.pc = "streaming"]

\* newStreamInterceptor: the version check, with no whitelist
StreamVersionGate(cl) ==
    LET err == checkClientVersion(cl.ctx)
        entered == [cl EXCEPT !.trace = @ \o <<"checkClientVersion">>]
    IN  IF err # Nil
        THEN Return([entered EXCEPT !.log = @ \o <<LogError(err)>>], "nil", err)
        ELSE [entered EXCEPT !.pc = "auth"]

\* both interceptors: the optional authenticated-user check
AuthGate(cl, f) ==
    LET r == optionallyCheckAuthenticatedUser(f, cl.ctx)
        entered == [cl EXCEPT !.trace = @ \o r.events, !.log = @ \o r.log]
    IN  IF r.err # Nil
        THEN Return(entered, "nil", r.err)
        ELSE [entered EXCEPT !.pc = "handler"]

\* Faulty variant: the handler's response is dropped on the way back.
UnaryHandler_DropsResponse(cl, r) ==
    Return([cl EXCEPT !.trace = @ \o <<"handler">>, !.handlerRet = r],
           "nil", r.err)

\* newUnaryInterceptor: goprom.UnaryServerInterceptor runs the handler once
\* and its result is returned as it is
UnaryHandler(cl, r) ==
    Return([cl EXCEPT !.trace = @ \o <<"handler">>, !.handlerRet = r],
           r.resp, r.err)

\* newStreamInterceptor: goprom.StreamServerInterceptor starts the stream
\* handler, which then owns the stream
StreamHandler(cl) ==
    [cl EXCEPT !.trace = @ \o <<"handler">>, !.pc = "streaming"]

\* the stream handler reads or writes one message
StreamMessage(cl) ==
    [cl EXCEPT !.msgs = @ + 1]

\* the stream handler returns and its error is returned as it is
StreamReturn(cl, err) ==
    Return([cl EXCEPT !.handlerRet = [resp |-> "nil", err |-> err]], "nil", err)

----------------------------------------------------------------------------
(* Actions *)

Others == <<factory, opts, splitIn, splitOut, lint, identity>>

\* gRPC hands a new call to the interceptor chain
Arrive(c) ==
    /\ call[c].pc = "idle"
    /\ \E k \in Kinds, m \in FullMethods, x \in Contexts :
          call' = [call EXCEPT ![c] =
                      [IdleCall EXCEPT !.pc = "version", !.kind = k,
                                       !.fullMethod = m, !.ctx = x]]
    /\ UNCHANGED Others

\* Faulty variant: a call the version check rejected is checked once more.
VersionStep_Retries(c) ==
    /\ \/ call[c].pc = "version"
       \/ /\ call[c].pc = "done"
          /\ call[c].trace = <<"checkClientVersion">>
    /\ call' = [call EXCEPT ![c] =
                   IF call[c].kind = "unary" THEN UnaryVersionGate(call[c])
                   ELSE StreamVersionGate(call[c])]
    /\ UNCHANGED Others

VersionStep(c) ==
    /\ call[c].pc = "version"
    /\ call' = [call EXCEPT ![c] =
                   IF call[c].kind = "unary" THEN UnaryVersionGate(call[c])
                   ELSE StreamVersionGate(call[c])]
    /\ UNCHANGED Others

\* Faulty variant: the check reads the caller's factory, not the copy.
AuthStep_ReadsFactory(c) ==
    /\ call[c].pc = "auth"
    /\ call' = [call EXCEPT ![c] = AuthGate(call[c], factory)]
    /\ UNCHANGED Others

\* Faulty variant: the context is kept in a variable the calls share, so the
\* check sees the context of the first call in flight.
AuthStep_SharedContext(c) ==
    /\ call[c].pc = "auth"
    /\ LET d == CHOOSE d \in DOMAIN call :
                   /\ call[d].pc # "idle"
                   /\ \A e \in DOMAIN call : call[e].pc # "idle" => d <= e
           r == AuthGate([call[c] EXCEPT !.ctx = call[d].ctx], opts)
       IN  call' = [call EXCEPT ![c] = [r EXCEPT !.ctx = call[c].ctx]]
    /\ UNCHANGED Others

AuthStep(c) ==
    /\ call[c].pc = "auth"
    /\ call' = [call EXCEPT ![c] = AuthGate(call[c], opts)]
    /\ UNCHANGED Others

UnaryHandlerStep(c) ==
    /\ call[c].pc = "handler"
    /\ call[c].kind = "unary"
    /\ \E r \in HandlerResults :
          call' = [call EXCEPT ![c] = UnaryHandler(call[c], r)]
    /\ UNCHANGED Others

StreamHandlerStep(c) ==
    /\ call[c].pc = "handler"
    /\ call[c].kind = "stream"
    /\ call' = [call EXCEPT ![c] = StreamHandler(call[c])]
    /\ UNCHANGED Others

StreamMessageStep(c) ==
    /\ call[c].pc = "streaming"
    /\ call[c].msgs < MaxMsgs
    /\ call' = [call EXCEPT ![c] = StreamMessage(call[c])]
    /\ UNCHANGED Others

StreamReturnStep(c) ==
    /\ call[c].pc = "streaming"
    /\ \E r \in HandlerResults :
          call' = [call EXCEPT ![c] = StreamReturn(call[c], r.err)]
    /\ UNCHANGED Others

\* the client disconnects or the deadline passes while a gate is evaluating;
\* no gate reads ctx.Done() or ctx.Err()
Cancel(c) ==
    /\ call[c].pc \in {"version", "auth"}
    /\ ~call[c].canceled
    /\ call' = [call EXCEPT ![c].canceled = TRUE]
    /\ UNCHANGED Others

\* the call completed and its context is discarded
Release(c) ==
    /\ call[c].pc = "done"
    /\ call' = [call EXCEPT ![c] = IdleCall]
    /\ UNCHANGED Others

\* the owner of the factory writes its exported field after NewServer
SetAuthProxyEnabled ==
    /\ factory' = [factory EXCEPT !.AuthProxyEnabled = ~@]
    /\ UNCHANGED <<opts, call, splitIn, splitOut, lint, identity>>

Next ==
    \/ \E c \in DOMAIN call : Arrive(c)
    \/ \E c \in DOMAIN call : VersionStep(c)
    \/ \E c \in DOMAIN call : AuthStep(c)
    \/ \E c \in DOMAIN call : UnaryHandlerStep(c)
    \/ \E c \in DOMAIN call : StreamHandlerStep(c)
    \/ \E c \in DOMAIN call : StreamMessageStep(c)
    \/ \E c \in DOMAIN call : StreamReturnStep(c)
    \/ \E c \in DOMAIN call : Cancel(c)
    \/ \E c \in DOMAIN call : Release(c)
    \/ SetAuthProxyEnabled

Spec == Init /\ [][Next]_vars

----------------------------------------------------------------------------
(* Several calls in flight together, each served by its own goroutine.  The *)
(* steps are those of Spec; the calls are drawn from fewer inputs and none  *)
(* is canceled (no gate reads the cancellation).                            *)

ConcurrentMethods ==
    { <<Slash, "Svc", Slash, "Install">>, <<Slash, "Svc", Slash, "GetVersion">> }

ConcurrentContexts ==
    { NoMetadata,
      WithMetadata(VersionKey :> <<Str("2.1.0")>> @@ UserKey :> <<Str("alice")>>
                   @@ GroupsKey :> <<Groups>>),
      WithMetadata(VersionKey :> <<Str("1.0.0")>> @@ UserKey :> <<Str("alice")>>) }

InitConcurrent ==
    /\ factory \in [AuthProxyEnabled : BOOLEAN]
    /\ opts = NewServer(factory)
    /\ call = [c \in 1..NumConcurrent |-> IdleCall]
    /\ splitIn = EmptyStr
    /\ splitOut = NotRun
    /\ lint = IdleLint
    /\ identity = IdleIdentity

ArriveConcurrent(c) ==
    /\ call[c].pc = "idle"
    /\ \E k \in Kinds, m \in ConcurrentMethods, x \in ConcurrentContexts :
          call' = [call EXCEPT ![c] =
                      [IdleCall EXCEPT !.pc = "version", !.kind = k,
                                       !.fullMethod = m, !.ctx = x]]
    /\ UNCHANGED Others

NextConcurrent ==
    \/ \E c \in DOMAIN call : ArriveConcurrent(c)
    \/ \E c \in DOMAIN call : VersionStep(c)
    \/ \E c \in DOMAIN call : AuthStep(c)
    \/ \E c \in DOMAIN call : UnaryHandlerStep(c)
    \/ \E c \in DOMAIN call : StreamHandlerStep(c)
    \/ \E c \in DOMAIN call : StreamMessageStep(c)
    \/ \E c \in DOMAIN call : StreamReturnStep(c)
    \/ \E c \in DOMAIN call : Release(c)
    \/ SetAuthProxyEnabled

SpecConcurrent == InitConcurrent /\ [][NextConcurrent]_vars

----------------------------------------------------------------------------
(* The calls under fair scheduling: the goroutine serving a call is not     *)
(* starved while it is in a gate, and no gate blocks.  Nothing is assumed   *)
(* of the handler, the client or the owner of the factory.                  *)

NextFair ==
    \/ \E c \in DOMAIN call : ArriveConcurrent(c)
    \/ \E c \in DOMAIN call : VersionStep(c)
    \/ \E c \in DOMAIN call : AuthStep(c)
    \/ \E c \in DOMAIN call : UnaryHandlerStep(c)
    \/ \E c \in DOMAIN call : StreamHandlerStep(c)
    \/ \E c \in DOMAIN call : StreamMessageStep(c)
    \/ \E c \in DOMAIN call : StreamReturnStep(c)
    \/ \E c \in DOMAIN call : Cancel(c)
    \/ \E c \in DOMAIN call : Release(c)
    \/ SetAuthProxyEnabled

SpecFair ==
    /\ Init
    /\ [][NextFair]_vars
    /\ \A c \in Calls : WF_vars(VersionStep(c)) /\ WF_vars(AuthStep(c))

----------------------------------------------------------------------------
(* splitMethod on its own: every string of at most MaxLen atoms            *)

Alphabet == {Slash, "Svc", "GetVersion"}
Strings == UNION { [1..n -> Alphabet] : n \in 0..MaxLen }

InitSplit ==
    /\ factory = [AuthProxyEnabled |-> FALSE]
    /\ opts = NewServer(factory)
    /\ call = [c \in Calls |-> IdleCall]
    /\ splitIn \in Strings
    /\ splitOut = NotRun
    /\ lint = IdleLint
    /\ identity = IdleIdentity

RunSplitMethod ==
    /\ splitOut = NotRun
    /\ splitOut' = splitMethod(splitIn)
    /\ UNCHANGED <<factory, opts, call, splitIn, lint, identity>>

NextSplit == RunSplitMethod

SpecSplit == InitSplit /\ [][NextSplit]_vars

----------------------------------------------------------------------------
(* authenticatedUserFromContext on its own: metadata whose user and groups *)
(* headers are absent, empty, or carry one or two values; a groups value   *)
(* is any string of at most MaxGroupAtoms atoms over "|" and two names     *)

MaxGroupAtoms == 3

GroupAlphabet == {Pipe, "admins", "devs"}
GroupStrings == UNION { [1..n -> GroupAlphabet] : n \in 0..MaxGroupAtoms }

AbsentHeader == [present |-> FALSE, vals |-> <<>>]
PresentHeader(vals) == [present |-> TRUE, vals |-> vals]

UserHeaders ==
    {AbsentHeader, PresentHeader(<<>>)}
        \cup {PresentHeader(<<u>>) : u \in {EmptyStr, Str("alice")}}
        \cup {PresentHeader(<<u, Str("mallory")>>) : u \in {EmptyStr, Str("alice")}}

GroupHeaders ==
    {AbsentHeader, PresentHeader(<<>>)}
        \cup {PresentHeader(<<g>>) : g \in GroupStrings}
        \cup {PresentHeader(<<g, Str("root")>>) : g \in GroupStrings}

Header(key, h) == IF h.present THEN key :> h.vals ELSE <<>>

IdentityContexts ==
    {NoMetadata}
        \cup {WithMetadata(Header(UserKey, u) @@ Header(GroupsKey, g)) :
                 u \in UserHeaders, g \in GroupHeaders}

InitIdentity ==
    /\ factory = [AuthProxyEnabled |-> TRUE]
    /\ opts = NewServer(factory)
    /\ call = [c \in Calls |-> IdleCall]
    /\ splitIn = EmptyStr
    /\ splitOut = NotRun
    /\ lint = IdleLint
    /\ \E ctx \in IdentityContexts : identity = [IdleIdentity EXCEPT !.ctx = ctx]

RunIdentity ==
    /\ identity.pc = "idle"
    /\ LET ug == authenticatedUserFromContext(identity.ctx)
       IN  identity' = [identity EXCEPT !.pc = "done", !.user = ug.user,
                                        !.groups = ug.groups, !.log = ug.log]
    /\ UNCHANGED <<factory, opts, call, splitIn, splitOut, lint>>

NextIdentity == RunIdentity

SpecIdentity == InitIdentity /\ [][NextIdentity]_vars

----------------------------------------------------------------------------
(* The lint command: lintCmd.run over a list of paths.  A path is described *)
(* by what lintChart meets on it: whether it names a .tgz archive, whether  *)
(* the temporary directory, the open and the expansion succeed, the index   *)
(* of the last '-' in the archive's base name, whether Chart.yaml is there, *)
(* and the highest severity lint.All reports.                               *)

\* package support: the severities, in rising order
UnknownSev == 0
InfoSev == 1
WarningSev == 2
ErrorSev == 3
Severities == {UnknownSev, InfoSev, WarningSev, ErrorSev}

Dir(chartYaml, sev) ==
    [tgz |-> FALSE, tempDir |-> TRUE, open |-> TRUE, expand |-> TRUE,
     lastHyphenIndex |-> -1, chartYaml |-> chartYaml, severity |-> sev]
Tgz(tempDir, open, expand, hyphen, chartYaml, sev) ==
    [tgz |-> TRUE, tempDir |-> tempDir, open |-> open, expand |-> expand,
     lastHyphenIndex |-> hyphen, chartYaml |-> chartYaml, severity |-> sev]

PathKinds ==
    { Dir(TRUE, sev) : sev \in Severities }
    \cup { Dir(FALSE, UnknownSev),
           Tgz(TRUE, TRUE, TRUE, 5, TRUE, WarningSev),
           Tgz(TRUE, TRUE, TRUE, 5, FALSE, UnknownSev),
           Tgz(FALSE, TRUE, TRUE, 5, TRUE, UnknownSev),
           Tgz(TRUE, FALSE, TRUE, 5, TRUE, UnknownSev),
           Tgz(TRUE, TRUE, FALSE, 5, TRUE, ErrorSev),
           Tgz(TRUE, TRUE, TRUE, -1, TRUE, ErrorSev),
           Tgz(TRUE, TRUE, TRUE, 0, TRUE, UnknownSev) }

PathLists == UNION { [1..n -> PathKinds] : n \in 1..MaxPaths }

\* lintChart: the linter's highest severity, or the error met on the way
lintChart(path) ==
    IF path.tgz /\ ~path.tempDir THEN [err |-> "TempDir", severity |-> UnknownSev]
    ELSE IF path.tgz /\ ~path.open THEN [err |-> "Open", severity |-> UnknownSev]
    ELSE IF path.tgz /\ ~path.expand THEN [err |-> "Expand", severity |-> UnknownSev]
    ELSE IF path.tgz /\ path.lastHyphenIndex <= 0
         THEN [err |-> "missing '-'", severity |-> UnknownSev]
    ELSE IF ~path.chartYaml THEN [err |-> "errLintNoChart", severity |-> UnknownSev]
    ELSE [err |-> "nil", severity |-> path.severity]

\* Faulty variant: strict and lenient tolerance exchanged.
lowestTolerance_Exchanged(strict) == IF strict THEN ErrorSev ELSE WarningSev

\* run: the lowest severity that fails a chart
lowestTolerance(strict) == IF strict THEN WarningSev ELSE ErrorSev

\* run: the tolerance is set and the raw values are read
runStart(l) ==
    IF l.valsOK
    THEN [l EXCEPT !.pc = "paths", !.lowestTolerance = lowestTolerance(l.strict)]
    ELSE [l EXCEPT !.pc = "done", !.lowestTolerance = lowestTolerance(l.strict),
                   !.ret = "vals error"]

\* Faulty variant: every error of lintChart counts as a failure.
runPath_AnyErrorFails(l) ==
    LET r == lintChart(l.paths[l.next])
    IN  IF r.err # "nil"
        THEN [l EXCEPT !.next = @ + 1, !.failures = @ + 1]
        ELSE [l EXCEPT !.next = @ + 1, !.total = @ + 1,
                       !.failures = IF r.severity >= l.lowestTolerance
                                    THEN @ + 1 ELSE @]

\* run: one turn of the loop over the paths
runPath(l) ==
    LET r == lintChart(l.paths[l.next])
    IN  IF r.err # "nil"
        THEN [l EXCEPT !.next = @ + 1,
                       !.failures = IF r.err = "errLintNoChart" THEN @ + 1 ELSE @]
        ELSE [l EXCEPT !.next = @ + 1, !.total = @ + 1,
                       !.failures = IF r.severity >= l.lowestTolerance
                                    THEN @ + 1 ELSE @]

\* run: the summary after the loop
runFinish(l) ==
    [l EXCEPT !.pc = "done", !.ret = IF l.failures > 0 THEN "failed" ELSE "nil"]

InitLint ==
    /\ factory = [AuthProxyEnabled |-> FALSE]
    /\ opts = NewServer(factory)
    /\ call = [c \in Calls |-> IdleCall]
    /\ splitIn = EmptyStr
    /\ splitOut = NotRun
    /\ identity = IdleIdentity
    /\ \E strict \in BOOLEAN, valsOK \in BOOLEAN, paths \in PathLists :
          lint = [IdleLint EXCEPT !.strict = strict, !.valsOK = valsOK,
                                  !.paths = paths]

NotLint == <<factory, opts, call, splitIn, splitOut, identity>>

RunStart ==
    /\ lint.pc = "idle"
    /\ lint' = runStart(lint)
    /\ UNCHANGED NotLint

RunPath ==
    /\ lint.pc = "paths"
    /\ lint.next <= Len(lint.paths)
    /\ lint' = runPath(lint)
    /\ UNCHANGED NotLint

RunFinish ==
    /\ lint.pc = "paths"
    /\ lint.next > Len(lint.paths)
    /\ lint' = runFinish(lint)
    /\ UNCHANGED NotLint

NextLint == RunStart \/ RunPath \/ RunFinish

SpecLint == InitLint /\ [][NextLint]_vars

----------------------------------------------------------------------------
(* Vocabulary of the properties *)

Has(seq, e) == \E i \in DOMAIN seq : seq[i] = e
Count(seq, e) == Cardinality({i \in DOMAIN seq : seq[i] = e})
Before(seq, a, b) ==
    \A i \in DOMAIN seq : seq[i] = b => \E j \in 1..(i - 1) : seq[j] = a

VersionGateName == "checkClientVersion"
AuthGateName == "optionallyCheckAuthenticatedUser"
HandlerName == "handler"

\* the first value of a header, empty when there is none
FirstValue(ctx, key) ==
    IF ~ctx.ok THEN EmptyStr
    ELSE IF key \notin DOMAIN ctx.md THEN EmptyStr
    ELSE IF ctx.md[key] = <<>> THEN EmptyStr
    ELSE Head(ctx.md[key])

Incompatible(cl) == ~IsCompatible(FirstValue(cl.ctx, VersionKey), GetVersion)
MethodOf(cl) == splitMethod(cl.fullMethod)[2]
Started(cl) == cl.pc # "idle"
PastVersionGate(cl) == cl.pc \notin {"idle", "version"}
PastAuthGate(cl) == cl.pc \notin {"idle", "version", "auth"}
IsVersionMismatch(err) == err.msg = "incompatible versions"

\* /<service>/<method> with two non-empty components
Slashes(s) == {i \in 1..Len(s) : s[i] = Slash}
WellFormed(s) ==
    /\ Cardinality(Slashes(s)) = 2
    /\ 1 \in Slashes(s)
    /\ 2 \notin Slashes(s)
    /\ Len(s) \notin Slashes(s)
SecondSlash(s) == CHOOSE i \in Slashes(s) : i # 1

----------------------------------------------------------------------------
(* C1: a call, unary or streaming, whose method is not GetVersion and      *)
(* whose client version is incompatible ends rejected with the version     *)
(* mismatch error, and neither the authenticated-user check nor the        *)
(* handler is ever entered for it.                                         *)
C1_NonExemptMismatchRejected ==
    \A c \in DOMAIN call :
        LET cl == call[c]
        IN  (Started(cl) /\ MethodOf(cl) # GetVersionName /\ Incompatible(cl)) =>
               /\ ~Has(cl.trace, AuthGateName)
               /\ ~Has(cl.trace, HandlerName)
               /\ PastVersionGate(cl) =>
                     /\ cl.pc = "done"
                     /\ cl.ret.resp = "nil"
                     /\ cl.ret.err = VersionMismatch(FirstValue(cl.ctx, VersionKey),
                                                     GetVersion)

C1_Witness ==
    \E c \in DOMAIN call :
        /\ call[c].pc = "done"
        /\ call[c].kind = "unary"
        /\ call[c].fullMethod = <<Slash, "Svc", Slash, "Install">>
        /\ Incompatible(call[c])
        /\ IsVersionMismatch(call[c].ret.err)

(* C2: a call whose method component is GetVersion, unary or streaming, is *)
(* never rejected for an incompatible client version: past the version     *)
(* check it has gone on to the authenticated-user check.                   *)
C2_ExemptNeverVersionRejected ==
    \A c \in DOMAIN call :
        LET cl == call[c]
        IN  (WellFormed(cl.fullMethod) /\ MethodOf(cl) = GetVersionName
             /\ PastVersionGate(cl)) =>
               /\ cl.pc = "auth" \/ Has(cl.trace, AuthGateName)
               /\ ~IsVersionMismatch(cl.ret.err)

(* C3: with the authenticated-user check enabled and no non-empty first    *)
(* value of x-forwarded-user, the handler is never entered, and a call     *)
(* that the version check let through, GetVersion included, ends rejected  *)
(* as unauthorized.                                                        *)
C3_NoUserNeverHandled ==
    \A c \in DOMAIN call :
        LET cl == call[c]
        IN  (opts.AuthProxyEnabled /\ Started(cl)
             /\ FirstValue(cl.ctx, UserKey) = EmptyStr) =>
               /\ ~Has(cl.trace, HandlerName)
               /\ cl.pc \notin {"handler", "streaming"}
               /\ cl.pc = "done" =>
                     /\ cl.ret.resp = "nil"
                     /\ IF Has(cl.trace, AuthGateName)
                        THEN cl.ret.err = Unauthorized
                        ELSE IsVersionMismatch(cl.ret.err)

C3_Witness ==
    \E c \in DOMAIN call :
        /\ opts.AuthProxyEnabled
        /\ call[c].pc = "done"
        /\ MethodOf(call[c]) = GetVersionName
        /\ Incompatible(call[c])
        /\ UserKey \in DOMAIN call[c].ctx.md
        /\ call[c].ret.err = Unauthorized

(* C4: with the authenticated-user check disabled, the check lets every    *)
(* call through: it never returns the unauthorized error, it does not look *)
(* at the metadata, and it prints nothing.                                 *)
C4_DisabledAdmitsAll ==
    \A c \in DOMAIN call :
        LET cl == call[c]
        IN  ~opts.AuthProxyEnabled =>
               /\ cl.ret.err # Unauthorized
               /\ ~Has(cl.trace, "checkAuthenticatedUser")
               /\ ~Has(cl.trace, "authenticatedUserFromContext")
               /\ \A i \in DOMAIN cl.log : cl.log[i].rec = "error"
               /\ Has(cl.trace, AuthGateName) =>
                     \/ cl.pc \in {"handler", "streaming"}
                     \/ cl.pc = "done" /\ Has(cl.trace, HandlerName)

C4_Witness ==
    \E c \in DOMAIN call :
        /\ ~opts.AuthProxyEnabled
        /\ call[c].ctx = NoMetadata
        /\ MethodOf(call[c]) = GetVersionName
        /\ Has(call[c].trace, AuthGateName)
        /\ Has(call[c].trace, HandlerName)

(* C5: in every call the version check is entered before the               *)
(* authenticated-user check and that one before the handler, and the       *)
(* handler is entered only when both let the call through (a whitelisted   *)
(* version failure counts as let through).                                 *)
C5_GateOrder ==
    \A c \in DOMAIN call :
        LET cl == call[c]
        IN  /\ Before(cl.trace, VersionGateName, AuthGateName)
            /\ Before(cl.trace, AuthGateName, HandlerName)
            /\ (cl.pc = "auth" \/ Has(cl.trace, AuthGateName)) =>
                  \/ ~Incompatible(cl)
                  \/ MethodOf(cl) = GetVersionName
            /\ (cl.pc \in {"handler", "streaming"} \/ Has(cl.trace, HandlerName)) =>
                  /\ Has(cl.trace, VersionGateName)
                  /\ Has(cl.trace, AuthGateName)
                  /\ ~opts.AuthProxyEnabled \/ FirstValue(cl.ctx, UserKey) # EmptyStr

C5_Witness ==
    \E c \in DOMAIN call :
        /\ call[c].kind = "unary"
        /\ Incompatible(call[c])
        /\ opts.AuthProxyEnabled
        /\ call[c].trace = <<VersionGateName, AuthGateName, "checkAuthenticatedUser",
                             "authenticatedUserFromContext", HandlerName>>

(* C6: a call that ends with no gate error had its handler entered exactly *)
(* once and returns exactly the response and error the handler returned; a *)
(* call a gate rejected never had its handler entered; no call has its     *)
(* handler entered twice.                                                  *)
C6_HandlerOnceVerbatim ==
    \A c \in DOMAIN call :
        LET cl == call[c]
            rejected == IsVersionMismatch(cl.ret.err) \/ cl.ret.err = Unauthorized
        IN  /\ Count(cl.trace, HandlerName) <= 1
            /\ cl.pc = "done" =>
                  IF rejected
                  THEN /\ Count(cl.trace, HandlerName) = 0
                       /\ cl.ret.resp = "nil"
                  ELSE /\ Count(cl.trace, HandlerName) = 1
                       /\ cl.ret = cl.handlerRet

C6_Witness ==
    \E c \in DOMAIN call :
        /\ call[c].pc = "done"
        /\ call[c].kind = "unary"
        /\ Count(call[c].trace, HandlerName) = 1
        /\ call[c].ret = [resp |-> "response", err |-> Nil]

(* C7: a call canceled while the version check or the authenticated-user   *)
(* check is evaluating never has its admission completed and never has its *)
(* handler entered.                                                        *)
C7_CancelAborts ==
    \A c \in DOMAIN call :
        LET cl == call[c]
        IN  cl.canceled =>
               /\ cl.pc \notin {"handler", "streaming"}
               /\ ~Has(cl.trace, HandlerName)

(* C8: a call whose full method name is not /<service>/<method> with two   *)
(* non-empty components is classified unknown/unknown and, when its client *)
(* version is incompatible, is rejected by the version check.              *)
C8_MalformedFailsClosed ==
    \A c \in DOMAIN call :
        LET cl == call[c]
        IN  (~WellFormed(cl.fullMethod) /\ Incompatible(cl) /\ PastVersionGate(cl)) =>
               /\ splitMethod(cl.fullMethod) = <<Unknown, Unknown>>
               /\ cl.pc = "done"
               /\ IsVersionMismatch(cl.ret.err)

(* C9: splitMethod returns the service and the method of a string of the   *)
(* form /Svc/Method with both non-empty, and unknown/unknown for every     *)
(* other string.                                                           *)
C9_SplitMethod ==
    splitOut # NotRun =>
        IF WellFormed(splitIn)
        THEN splitOut = <<SubSeq(splitIn, 2, SecondSlash(splitIn) - 1),
                          SubSeq(splitIn, SecondSlash(splitIn) + 1, Len(splitIn))>>
        ELSE splitOut = <<Unknown, Unknown>>

(* C10: on a streaming call each gate is entered at most once, both have   *)
(* been entered, in order, before the stream handler starts and before any *)
(* message is exchanged, and a stream whose handler started ends with the  *)
(* handler's own result whatever is written to the factory's flag          *)
(* meanwhile.                                                              *)
C10_StreamGatesOnce ==
    \A c \in DOMAIN call :
        LET cl == call[c]
        IN  cl.kind = "stream" =>
               /\ Count(cl.trace, VersionGateName) <= 1
               /\ Count(cl.trace, AuthGateName) <= 1
               /\ (cl.pc = "streaming" \/ cl.msgs > 0 \/ Has(cl.trace, HandlerName)) =>
                     /\ Count(cl.trace, VersionGateName) = 1
                     /\ Count(cl.trace, AuthGateName) = 1
                     /\ Before(cl.trace, VersionGateName, AuthGateName)
                     /\ Before(cl.trace, AuthGateName, HandlerName)
                     /\ cl.pc \in {"streaming", "done"}
                     /\ cl.pc = "done" => cl.ret = cl.handlerRet

C10_Witness ==
    \E c \in DOMAIN call :
        /\ call[c].kind = "stream"
        /\ call[c].pc = "streaming"
        /\ call[c].msgs > 0
        /\ ~opts.AuthProxyEnabled
        /\ factory.AuthProxyEnabled
        /\ FirstValue(call[c].ctx, UserKey) = EmptyStr

----------------------------------------------------------------------------
(* Vocabulary of the lint properties *)

ArchiveOK(p) ==
    p.tgz => (p.tempDir /\ p.open /\ p.expand /\ p.lastHyphenIndex > 0)
Linted(p) == ArchiveOK(p) /\ p.chartYaml
NoChart(p) == ArchiveOK(p) /\ ~p.chartYaml
Skipped(p) == ~ArchiveOK(p)
Tolerance == IF lint.strict THEN WarningSev ELSE ErrorSev
AtOrAboveTolerance(p) == Linted(p) /\ p.severity >= Tolerance
PathsWhere(P(_)) == {i \in DOMAIN lint.paths : P(lint.paths[i])}

(* C11: the lint command fails whenever some linted chart has a highest    *)
(* severity at or above the tolerance (warning when strict, error          *)
(* otherwise), and succeeds when every path is linted with a severity      *)
(* below the tolerance.                                                    *)
C11_LintFailsAtTolerance ==
    lint.pc = "done" =>
        /\ PathsWhere(AtOrAboveTolerance) # {} => lint.ret # "nil"
        /\ (lint.valsOK /\ \A i \in DOMAIN lint.paths :
                Linted(lint.paths[i]) /\ lint.paths[i].severity < Tolerance)
              => lint.ret = "nil"

C11_Witness ==
    /\ lint.pc = "done"
    /\ lint.strict
    /\ lint.valsOK
    /\ \A i \in DOMAIN lint.paths :
          Linted(lint.paths[i]) /\ lint.paths[i].severity <= WarningSev
    /\ \E i \in DOMAIN lint.paths : lint.paths[i].severity = WarningSev
    /\ lint.ret = "failed"

(* C12: the flag the authenticated-user check reads is the value the       *)
(* factory had when the server options were built: no step ever changes    *)
(* it, and whatever is written to the factory's field afterwards, every    *)
(* call the check has decided was decided by that first value.             *)
AuthDecidedBy(cl, f) ==
    IF f.AuthProxyEnabled /\ FirstValue(cl.ctx, UserKey) = EmptyStr
    THEN cl.pc = "done" /\ cl.ret.err = Unauthorized
    ELSE cl.ret.err # Unauthorized

C12_ConfigImmutable ==
    /\ opts = factory
    /\ [][opts' = opts]_vars
    /\ [](\A c \in DOMAIN call :
            Has(call[c].trace, AuthGateName) => AuthDecidedBy(call[c], opts))

C12_Witness ==
    \E c \in DOMAIN call :
        /\ factory.AuthProxyEnabled
        /\ ~opts.AuthProxyEnabled
        /\ FirstValue(call[c].ctx, UserKey) = EmptyStr
        /\ Has(call[c].trace, AuthGateName)
        /\ call[c].pc = "done"
        /\ call[c].ret.err = Nil

(* C13: with several calls in flight in any interleaving, the decision     *)
(* each call gets (admitted, rejected for the version, rejected as         *)
(* unauthorized) is the one the same call gets when it runs alone, and a   *)
(* step taken for one call changes neither another call nor the flag the   *)
(* authenticated-user check reads.                                         *)
DecisionOf(cl) ==
    IF cl.pc \in {"handler", "streaming"} \/ Has(cl.trace, HandlerName)
    THEN "ADMITTED"
    ELSE IF cl.pc = "done" /\ IsVersionMismatch(cl.ret.err)
    THEN "REJECTED(VersionMismatch)"
    ELSE IF cl.pc = "done" /\ cl.ret.err = Unauthorized
    THEN "REJECTED(Unauthorized)"
    ELSE "PENDING"

\* the same call served alone, from its arrival to the end of the gates
RunAlone(cl, f) ==
    LET arrived == [IdleCall EXCEPT !.pc = "version", !.kind = cl.kind,
                                    !.fullMethod = cl.fullMethod, !.ctx = cl.ctx]
        versioned == IF cl.kind = "unary" THEN UnaryVersionGate(arrived)
                     ELSE StreamVersionGate(arrived)
    IN  IF versioned.pc = "auth" THEN AuthGate(versioned, f) ELSE versioned

C13_DecisionIndependent ==
    /\ [](\A c \in DOMAIN call :
            DecisionOf(call[c]) # "PENDING" =>
                DecisionOf(call[c]) = DecisionOf(RunAlone(call[c], opts)))
    /\ [][/\ opts' = opts
          /\ \A c, d \in DOMAIN call :
                (c # d /\ call'[c] # call[c]) => call'[d] = call[d]]_vars

C13_Witness ==
    \E c, d \in DOMAIN call :
        /\ c # d
        /\ call[c].pc = "streaming"
        /\ call[c].ctx # call[d].ctx
        /\ DecisionOf(call[c]) = "ADMITTED"
        /\ DecisionOf(call[d]) = "REJECTED(Unauthorized)"

(* C14: every call that arrives is eventually admitted or rejected; once   *)
(* admitted or rejected it keeps that outcome until the call is over; and  *)
(* after a rejection nothing more is run for the call: no gate, no         *)
(* handler, no retry.                                                      *)
Rejected(cl) ==
    DecisionOf(cl) \in {"REJECTED(VersionMismatch)", "REJECTED(Unauthorized)"}

C14_TerminalDecision ==
    /\ \A c \in Calls :
          (call[c].pc \in {"version", "auth"}) ~> (DecisionOf(call[c]) # "PENDING")
    /\ [][\A c \in DOMAIN call :
             /\ DecisionOf(call[c]) # "PENDING" =>
                   \/ call'[c] = IdleCall
                   \/ DecisionOf(call'[c]) = DecisionOf(call[c])
             /\ Rejected(call[c]) =>
                   \/ call'[c] = IdleCall
                   \/ call'[c] = call[c]]_vars

C14_Witness ==
    \E c \in DOMAIN call :
        /\ call[c].kind = "stream"
        /\ call[c].canceled
        /\ FirstValue(call[c].ctx, VersionKey) = Str("1.0.0")
        /\ DecisionOf(call[c]) = "REJECTED(VersionMismatch)"

(* C16: every rejected call has exactly one log record of its rejection:   *)
(* the version mismatch with both versions, or the unauthorized error.     *)
RejectionRecords(cl) ==
    {i \in DOMAIN cl.log : cl.log[i] = LogError(cl.ret.err)}

C16_RejectionLoggedOnce ==
    \A c \in DOMAIN call :
        Rejected(call[c]) => Cardinality(RejectionRecords(call[c])) = 1

----------------------------------------------------------------------------
(* C17: the resolved user is the first value of x-forwarded-user, the      *)
(* resolved groups are the pieces of the first value of x-forwarded-groups *)
(* between its "|" characters (none when the header is absent or has no    *)
(* values); values after the first are not used.                           *)
HasValue(ctx, key) ==
    ctx.ok /\ key \in DOMAIN ctx.md /\ Len(ctx.md[key]) > 0

Cuts(s) == {0, Len(s) + 1} \cup {i \in 1..Len(s) : s[i] = Pipe}

Pieces(s) ==
    {SubSeq(s, p[1] + 1, p[2] - 1) :
        p \in {q \in Cuts(s) \X Cuts(s) :
                  q[1] < q[2] /\ ~ \E k \in Cuts(s) : q[1] < k /\ k < q[2]}}

C17_ResolvedIdentity ==
    identity.pc = "done" =>
        /\ identity.user = IF HasValue(identity.ctx, UserKey)
                           THEN identity.ctx.md[UserKey][1] ELSE EmptyStr
        /\ {identity.groups[i] : i \in DOMAIN identity.groups}
              = IF HasValue(identity.ctx, GroupsKey)
                THEN Pieces(identity.ctx.md[GroupsKey][1]) ELSE {}

C17_Witness ==
    /\ identity.pc = "done"
    /\ HasValue(identity.ctx, UserKey) /\ Len(identity.ctx.md[UserKey]) = 2
    /\ HasValue(identity.ctx, GroupsKey) /\ Len(identity.ctx.md[GroupsKey]) = 2
    /\ identity.ctx.md[GroupsKey][1] = Groups
    /\ identity.user = Str("alice")
    /\ identity.groups = <<Str("admins"), Str("devs")>>

(* C18: when run has gone through its paths, total is the number of paths  *)
(* that were linted, failures is the number of paths without a chart plus  *)
(* the number of linted charts at or above the tolerance, and run returns  *)
(* an error exactly when failures > 0; a path whose archive could not be   *)
(* opened, expanded or named is counted in neither.                        *)
C18_LintCounts ==
    (lint.pc = "done" /\ lint.valsOK) =>
        /\ lint.total = Cardinality(PathsWhere(Linted))
        /\ lint.failures = Cardinality(PathsWhere(NoChart))
                              + Cardinality(PathsWhere(AtOrAboveTolerance))
        /\ lint.total + Cardinality(PathsWhere(NoChart))
              + Cardinality(PathsWhere(Skipped)) = Len(lint.paths)
        /\ (lint.ret # "nil") <=> (lint.failures > 0)

C18_Witness ==
    /\ lint.pc = "done"
    /\ lint.valsOK
    /\ PathsWhere(Skipped) # {}
    /\ PathsWhere(Linted) # {}
    /\ lint.total < Len(lint.paths)
    /\ lint.failures = 0
    /\ lint.ret = "nil"

====
